---- MODULE Spec2Model ----
(***************************************************************************)
(* A model of the complex-valued math kernels of plasmatorch (math.py,     *)
(* zeta.py), of the lens clipping (lens.py) and of the entry of            *)
(* Turbulence.forward (attention.py).                                      *)
(*                                                                         *)
(* Numbers are exact: a scalar is a normalised rational [n, d], a tensor   *)
(* element is a complex number [re, im] of two rationals, and a tensor is  *)
(* a shape, a dtype flag (cplx) and its elements in row-major order.       *)
(* The transcendental functions are evaluated on the lattices on which     *)
(* their values are rational:                                              *)
(*   - Cos/Sin take their argument in quarter turns (units of pi/2),       *)
(*     so an integer argument k stands for the real number k*pi/2;         *)
(*   - Exp/Sigmoid/Softmax take their argument in units of ln 2, so an     *)
(*     integer argument k stands for k*ln 2 and exp of it is 2^k;          *)
(*   - an angle (the result of x.angle()) is held as the point             *)
(*     [c, s] = (cos, sin) of the unit circle it denotes, which is what    *)
(*     every use of an angle in the code reads.                            *)
(* Floating-point rounding is not modelled.                                *)
(***************************************************************************)
EXTENDS Integers, Sequences, FiniteSets, TLC

VARIABLES fn, pc, args, locals, ret

vars == <<fn, pc, args, locals, ret>>

-----------------------------------------------------------------------------
(* Exact rational arithmetic *)

RECURSIVE GCD(_, _)
GCD(a, b) == IF b = 0 THEN a ELSE GCD(b, a % b)

IAbs(k) == IF k < 0 THEN -k ELSE k

ISign(k) == IF k < 0 THEN -1 ELSE IF k > 0 THEN 1 ELSE 0

Norm(n, d) ==
    LET g == GCD(IAbs(n), IAbs(d))
        sg == IF d < 0 THEN -1 ELSE 1
    IN  [n |-> sg * (n \div g), d |-> sg * (d \div g)]

R(k) == [n |-> k, d |-> 1]

\* the operations cancel common factors before they multiply, which keeps
\* the intermediate integers small
RAdd(x, y) ==
    LET g == GCD(x.d, y.d)
    IN  Norm(x.n * (y.d \div g) + y.n * (x.d \div g), (x.d \div g) * y.d)

RNeg(x) == [n |-> -x.n, d |-> x.d]

RSub(x, y) == RAdd(x, RNeg(y))

RMul(x, y) ==
    LET g1 == GCD(IAbs(x.n), y.d)
        g2 == GCD(IAbs(y.n), x.d)
    IN  Norm((x.n \div g1) * (y.n \div g2), (x.d \div g2) * (y.d \div g1))

RDiv(x, y) == Norm(x.n * y.d, x.d * y.n)

RAbs(x) == [n |-> IAbs(x.n), d |-> x.d]

RLt(x, y) ==
    LET g == GCD(x.d, y.d)
    IN  x.n * (y.d \div g) < y.n * (x.d \div g)

RGe(x, y) == ~RLt(x, y)

RSign(x) == R(ISign(x.n))

\* Tensor.to(int64): the value truncated toward zero
RTrunc(x) == ISign(x.n) * (IAbs(x.n) \div x.d)

RECURSIVE IPow(_, _)
IPow(b, e) == IF e = 0 THEN 1 ELSE b * IPow(b, e - 1)

\* x ** k for an integer k; x ** 0 is 1 for every x, as in torch.pow
RPow(x, k) ==
    IF k >= 0 THEN Norm(IPow(x.n, k), IPow(x.d, k))
    ELSE Norm(IPow(x.d, -k), IPow(x.n, -k))

RECURSIVE ISqrtFrom(_, _)
ISqrtFrom(k, r) == IF r * r >= k THEN r ELSE ISqrtFrom(k, r + 1)

\* square root of a rational that is a perfect square (the lattice the inputs
\* are drawn from guarantees it)
RSqrt(x) ==
    LET a == ISqrtFrom(x.n, 0)
        b == ISqrtFrom(x.d, 0)
    IN  CASE a * a = x.n /\ b * b = x.d -> [n |-> a, d |-> b]

-----------------------------------------------------------------------------
(* Transcendental functions on their rational lattices *)

\* cos(k * pi/2) for an integer k
Cos(x) ==
    CASE x.d = 1 /\ x.n % 4 = 0 -> R(1)
      [] x.d = 1 /\ x.n % 4 = 2 -> R(-1)
      [] x.d = 1 /\ x.n % 2 = 1 -> R(0)

\* sin(k * pi/2) for an integer k
Sin(x) ==
    CASE x.d = 1 /\ x.n % 4 = 1 -> R(1)
      [] x.d = 1 /\ x.n % 4 = 3 -> R(-1)
      [] x.d = 1 /\ x.n % 2 = 0 -> R(0)

\* exp(k * ln 2) = 2^k for an integer k
Exp(x) == CASE x.d = 1 -> RPow(R(2), x.n)

\* 1 / (1 + exp(-x)); d = 0 holds the two infinities, which saturate
Sigmoid(x) ==
    IF x.d = 0 THEN (IF x.n > 0 THEN R(1) ELSE R(0))
    ELSE RDiv(R(1), RAdd(R(1), Exp(RNeg(x))))

-----------------------------------------------------------------------------
(* Complex numbers *)

C(re, im) == [re |-> re, im |-> im]

CI(a, b) == C(R(a), R(b))

CAdd(x, y) == C(RAdd(x.re, y.re), RAdd(x.im, y.im))

CSub(x, y) == C(RSub(x.re, y.re), RSub(x.im, y.im))

CMul(x, y) ==
    C(RSub(RMul(x.re, y.re), RMul(x.im, y.im)),
      RAdd(RMul(x.re, y.im), RMul(x.im, y.re)))

CScale(r, x) == C(RMul(r, x.re), RMul(r, x.im))

\* Tensor.abs() of one element
CAbs(x) ==
    IF x.im.n = 0 THEN RAbs(x.re)
    ELSE IF x.re.n = 0 THEN RAbs(x.im)
    ELSE RSqrt(RAdd(RMul(x.re, x.re), RMul(x.im, x.im)))

\* Tensor.angle() of one element, as the unit-circle point of atan2(im, re);
\* atan2(0, 0) is 0
CAngle(x) ==
    LET m == CAbs(x)
    IN  IF m.n = 0 THEN [c |-> R(1), s |-> R(0)]
        ELSE [c |-> RDiv(x.re, m), s |-> RDiv(x.im, m)]

\* exp(i * k * angle) for k = 1 or 2
ExpI(k, ang) ==
    LET u == C(ang.c, ang.s)
    IN  IF k = 1 THEN u ELSE CMul(u, u)

\* exp(i * x) for a real x in quarter turns
ExpIReal(x) == C(Cos(x), Sin(x))

\* i() of math.py, one element
ImagUnit == CI(0, 1)

-----------------------------------------------------------------------------
(* Tensors: [shape, cplx, data], data in row-major order *)

RECURSIVE Prod(_, _, _)
Prod(shape, lo, hi) == IF lo > hi THEN 1 ELSE shape[lo] * Prod(shape, lo + 1, hi)

Numel(shape) == Prod(shape, 1, Len(shape))

\* number of elements one step along dimension k (1-based) skips
Stride(shape, k) == Prod(shape, k + 1, Len(shape))

\* 0-based coordinate along dimension k of the element at 0-based offset f
Coord(shape, k, f) == (f \div Stride(shape, k)) % shape[k]

Tensor(shape, cplx, data) == [shape |-> shape, cplx |-> cplx, data |-> data]

\* the shape two operands broadcast to: aligned at the last dimension, a
\* dimension of 1 stretches (the operands of the code never mismatch)
BroadcastShape(a, b) ==
    LET r == IF Len(a) > Len(b) THEN Len(a) ELSE Len(b)
        da(k) == IF k + Len(a) - r >= 1 THEN a[k + Len(a) - r] ELSE 1
        db(k) == IF k + Len(b) - r >= 1 THEN b[k + Len(b) - r] ELSE 1
    IN  [k \in 1..r |-> IF da(k) = 1 THEN db(k) ELSE da(k)]

RECURSIVE BroadcastOffset(_, _, _, _)
\* 0-based offset, in an operand of shape a, of the element that is broadcast
\* to offset f of the result of shape out (summed over dimensions k..Len(a))
BroadcastOffset(a, out, f, k) ==
    IF k > Len(a) THEN 0
    ELSE (IF a[k] = 1 THEN 0
          ELSE Coord(out, k + Len(out) - Len(a), f) * Stride(a, k))
         + BroadcastOffset(a, out, f, k + 1)

\* the elements of x broadcast to the shape out
Expand(x, out) ==
    [k \in 1..Numel(out) |-> x.data[1 + BroadcastOffset(x.shape, out, k - 1, 1)]]

\* x * y, elementwise with broadcasting
TMul(x, y) ==
    LET out == BroadcastShape(x.shape, y.shape)
        xs == Expand(x, out)
        ys == Expand(y, out)
    IN  Tensor(out, x.cplx \/ y.cplx, [k \in 1..Numel(out) |-> CMul(xs[k], ys[k])])

\* whether dim is a dimension of a tensor of this shape (negative dims count
\* from the end; a 0-dim tensor accepts 0 and -1)
DimOK(shape, dim) ==
    LET r == IF Len(shape) = 0 THEN 1 ELSE Len(shape)
    IN  -r <= dim /\ dim < r

\* the 1-based dimension a valid dim denotes
WrapDim(shape, dim) ==
    LET r == IF Len(shape) = 0 THEN 1 ELSE Len(shape)
    IN  (IF dim < 0 THEN dim + r ELSE dim) + 1

\* 1-based offsets of the elements that share every coordinate with the
\* element at 1-based offset k except the one along dimension d
Lane(shape, d, k) ==
    IF Len(shape) = 0 THEN {k}
    ELSE LET st == Stride(shape, d)
             base == (k - 1) - Coord(shape, d, k - 1) * st
         IN  {1 + base + j * st : j \in 0..(shape[d] - 1)}

RECURSIVE RSum(_, _)
RSum(f, S) ==
    IF S = {} THEN R(0)
    ELSE LET k == CHOOSE k \in S : TRUE
         IN  RAdd(f[k], RSum(f, S \ {k}))

\* torch.softmax of a real tensor along dim
Softmax(x, dim) ==
    LET d == WrapDim(x.shape, dim)
        e == [k \in DOMAIN x.data |-> Exp(x.data[k].re)]
    IN  [x EXCEPT !.data = [k \in DOMAIN x.data |->
            C(RDiv(e[k], RSum(e, Lane(x.shape, d, k))), R(0))]]

\* torch.stack((a, b), dim=-1) of two real tensors of one shape
Stack(a, b) ==
    Tensor(Append(a.shape, 2), FALSE,
           [k \in 1..(2 * Len(a.data)) |->
               IF k % 2 = 1 THEN a.data[(k + 1) \div 2] ELSE b.data[k \div 2]])

\* torch.view_as_complex: the last dimension, of size 2, becomes (re, im)
ViewAsComplex(x) ==
    Tensor(SubSeq(x.shape, 1, Len(x.shape) - 1), TRUE,
           [k \in 1..(Len(x.data) \div 2) |->
               C(x.data[2 * k - 1].re, x.data[2 * k].re)])

Real(r) == C(r, R(0))

\* the tensor i() returns: one complex element, shape (1)
ITensor == Tensor(<<1>>, TRUE, <<ImagUnit>>)

-----------------------------------------------------------------------------
(* math.py *)

\* Tensor.is_complex() with its answer inverted
IsComplexInverted(x) == ~x.cplx

IsComplex(x) == x.cplx

\* torch.cos, torch.sin and torch.sigmoid of a real tensor
TorchCos(x) == [x EXCEPT !.data = [k \in DOMAIN x.data |-> Real(Cos(x.data[k].re))]]

TorchSin(x) == [x EXCEPT !.data = [k \in DOMAIN x.data |-> Real(Sin(x.data[k].re))]]

TorchSigmoid(x) ==
    [x EXCEPT !.data = [k \in DOMAIN x.data |-> Real(Sigmoid(x.data[k].re))]]

\* a function's outcome: the branch it took and the tensor it returned
Value(branch, out) == [kind |-> "value", branch |-> branch, out |-> out]

IndexError(branch) == [kind |-> "error", branch |-> branch, err |-> "IndexError"]

NoReturn == [kind |-> "none"]

\* t.cos and t.sin of a tensor of angles
AngleCos(angle) == [angle EXCEPT !.data = [k \in DOMAIN angle.data |-> Real(angle.data[k].c)]]

AngleSin(angle) == [angle EXCEPT !.data = [k \in DOMAIN angle.data |-> Real(angle.data[k].s)]]

\* t.exp(i() * m * angle) for m = 1 or 2: the product i() * m * angle has the
\* shape i(), of shape (1), and the angle broadcast to
AngleExpI(m, angle) ==
    LET out == BroadcastShape(ITensor.shape, angle.shape)
        as == Expand(angle, out)
    IN  Tensor(out, TRUE, [k \in 1..Numel(out) |-> ExpI(m, as[k])])

\* the complex branch of isoftmax, with the sine and cosine of the angle
\* exchanged
isoftmaxComplexSwapped(x, dim) ==
    LET angle == [x EXCEPT !.cplx = FALSE,
                     !.data = [k \in DOMAIN x.data |-> CAngle(x.data[k])]]
        magnitude == [x EXCEPT !.cplx = FALSE,
                     !.data = [k \in DOMAIN x.data |-> Real(CAbs(x.data[k]))]]
        softMagnitude == Softmax(magnitude, dim)
        newReal == TMul(softMagnitude, AngleSin(angle))
        newImag == TMul(softMagnitude, AngleCos(angle))
    IN  ViewAsComplex(Stack(newReal, newImag))

\* the complex branch of isoftmax
isoftmaxComplex(x, dim) ==
    LET angle == [x EXCEPT !.cplx = FALSE,
                     !.data = [k \in DOMAIN x.data |-> CAngle(x.data[k])]]
        magnitude == [x EXCEPT !.cplx = FALSE,
                     !.data = [k \in DOMAIN x.data |-> Real(CAbs(x.data[k]))]]
        softMagnitude == Softmax(magnitude, dim)
        newReal == TMul(softMagnitude, AngleCos(angle))
        newImag == TMul(softMagnitude, AngleSin(angle))
    IN  ViewAsComplex(Stack(newReal, newImag))

isoftmax(x, dim) ==
    IF ~IsComplex(x)
    THEN IF DimOK(x.shape, dim) THEN Value("real", Softmax(x, dim))
         ELSE IndexError("real")
    ELSE IF DimOK(x.shape, dim) THEN Value("complex", isoftmaxComplex(x, dim))
         ELSE IndexError("complex")

\* t.cos(x.abs()) * t.exp(i() * 2. * x.angle())
icosComplex(x) ==
    LET cosAbs == [x EXCEPT !.cplx = FALSE,
                      !.data = [k \in DOMAIN x.data |-> Real(Cos(CAbs(x.data[k])))]]
        angle == [x EXCEPT !.cplx = FALSE,
                      !.data = [k \in DOMAIN x.data |-> CAngle(x.data[k])]]
    IN  TMul(cosAbs, AngleExpI(2, angle))

icos(x) ==
    IF ~IsComplex(x)
    THEN Value("real", TorchCos(x))
    ELSE Value("complex", icosComplex(x))

\* t.sin(x.abs()) * t.exp(i() * x.angle())
isinComplex(x) ==
    LET sinAbs == [x EXCEPT !.cplx = FALSE,
                      !.data = [k \in DOMAIN x.data |-> Real(Sin(CAbs(x.data[k])))]]
        angle == [x EXCEPT !.cplx = FALSE,
                      !.data = [k \in DOMAIN x.data |-> CAngle(x.data[k])]]
    IN  TMul(sinAbs, AngleExpI(1, angle))

isin(x) ==
    IF ~IsComplex(x)
    THEN Value("real", TorchSin(x))
    ELSE Value("complex", isinComplex(x))

\* 0/0, the value of xabs_e / xabs at x = 0
NaN == [n |-> 0, d |-> 0]

\* the masks of one element of the complex branch of isigmoid, and rotScalar
isigmoidQuads(x) ==
    LET examineQuadRight == x.re.n >= 0 /\ x.im.n < 0
        examineQuadLeft == x.im.n >= 0 /\ x.re.n < 0
    IN  [posQuad |-> IF x.re.n >= 0 /\ x.im.n >= 0 THEN 1 ELSE 0,
         negQuad |-> IF x.re.n < 0 /\ x.im.n < 0 THEN 1 ELSE 0,
         examineQuadRight |-> examineQuadRight,
         examineQuadLeft |-> examineQuadLeft,
         examineQuad |-> IF examineQuadLeft /\ examineQuadRight THEN 1 ELSE 0,
         \* cos((ang - pi/2) * 2) = cos((ang + pi/2) * 2) = -cos(2 * ang)
         rotScalar |-> IF examineQuadLeft \/ examineQuadRight
                       THEN RNeg(ExpI(2, CAngle(x)).re)
                       ELSE R(1)]

\* one element of the complex branch of isigmoid
isigmoidElem(x) ==
    LET xabs == CAbs(x)
        q == isigmoidQuads(x)
        posVal == RMul(R(q.posQuad), Sigmoid(RMul(R(q.posQuad), xabs)))
        negVal == RMul(R(q.negQuad), Sigmoid(RMul(R(q.negQuad), RNeg(xabs))))
        examVal == RMul(R(q.examineQuad),
                        Sigmoid(RMul(R(q.examineQuad), RMul(q.rotScalar, xabs))))
        finalSigmoidMag == RAdd(RAdd(posVal, negVal), examVal)
    IN  IF xabs.n = 0 THEN C(NaN, NaN)
        ELSE CScale(finalSigmoidMag,
                    C(RDiv(RAbs(x.re), xabs), RDiv(RAbs(x.im), xabs)))

\* the operands of the complex branch broadcast against PI2 = pi() / 2, of
\* shape (1)
isigmoid(x) ==
    IF ~IsComplex(x)
    THEN Value("real", TorchSigmoid(x))
    ELSE LET out == BroadcastShape(x.shape, <<1>>)
             xs == Expand(x, out)
         IN  Value("complex",
                   Tensor(out, TRUE, [k \in 1..Numel(out) |-> isigmoidElem(xs[k])]))

-----------------------------------------------------------------------------
(* Inputs of the math kernels *)

MaxRank == 2

MaxDim == 2

MaxNumel == 4

Shapes ==
    {s \in UNION {[1..r -> 0..MaxDim] : r \in 0..MaxRank} : Numel(s) <= MaxNumel}

Dims == (-(MaxRank + 1))..MaxRank

\* real elements: integers of the lattice
RealVals == {Real(R(k)) : k \in {-1, 0, 2}}

\* complex elements: Gaussian integers of rational magnitude, on and off the
\* axes, and zero
ComplexVals == {CI(0, 0), CI(0, 1), CI(-2, 0), CI(-4, -3)}

\* complex elements for isigmoid: one in each quadrant it distinguishes, and
\* zero
QuadrantVals == ComplexVals \cup {CI(0, -2)}

TensorsOver(V, cplx) ==
    UNION {{Tensor(s, cplx, d) : d \in [1..Numel(s) -> V]} : s \in Shapes}

RealTensors == TensorsOver(RealVals, FALSE)

Tensors == RealTensors \cup TensorsOver(ComplexVals, TRUE)

MathCalls ==
    {[fn |-> "isoftmax", args |-> [x |-> x, dim |-> dim]] : x \in Tensors, dim \in Dims}
    \cup {[fn |-> f, args |-> [x |-> x]] : f \in {"icos", "isin"}, x \in Tensors}
    \cup {[fn |-> "isigmoid", args |-> [x |-> x]] :
               x \in RealTensors \cup TensorsOver(QuadrantVals, TRUE)}

NoLocals == [branch |-> "none"]

InitMath ==
    \E call \in MathCalls :
        /\ fn = call.fn
        /\ args = call.args
        /\ pc = "entry"
        /\ locals = NoLocals
        /\ ret = NoReturn

\* a call of one of the kernels runs to its return
Return(r) ==
    /\ pc = "entry"
    /\ pc' = "done"
    /\ locals' = [branch |-> r.branch]
    /\ ret' = r
    /\ UNCHANGED <<fn, args>>

Isoftmax == fn = "isoftmax" /\ Return(isoftmax(args.x, args.dim))

Icos == fn = "icos" /\ Return(icos(args.x))

Isin == fn = "isin" /\ Return(isin(args.x))

Isigmoid == fn = "isigmoid" /\ Return(isigmoid(args.x))

NextMath == Isoftmax \/ Icos \/ Isin \/ Isigmoid

SpecMath == InitMath /\ [][NextMath]_vars

-----------------------------------------------------------------------------
(* zeta.py: hzetae and lerche.  s, a (and lam) are real tensors, held as the *)
(* sequences of their elements; res has shape (1) and aeps is a scalar.     *)

\* __hzetaitr on one element: pow(n + a, -s), s an integer
hzetaitr(s, a, n) == Real(RPow(RAdd(R(n), a), -s))

\* __lerchitr on one element, lam real: exp(i * 2 * pi * n * lam) times the
\* hzeta term; 2 * pi * n * lam is 4 * n * lam quarter turns
lerchitr(lam, s, a, n) == CMul(ExpIReal(RMul(R(4 * n), lam)), hzetaitr(s, a, n))

\* (z.abs() >= aeps.abs()) of one element, as 0 or 1; off the real axis the
\* two non-negative sides are compared by their squares
AbsGe(z, aeps) ==
    IF z.im.n = 0
    THEN (IF RGe(RAbs(z.re), RAbs(aeps)) THEN 1 ELSE 0)
    ELSE (IF RGe(RAdd(RMul(z.re, z.re), RMul(z.im, z.im)), RMul(aeps, aeps))
          THEN 1 ELSE 0)

\* epsig = isigmoid(res)
Epsig(res) == isigmoid(Tensor(<<1>>, FALSE, <<Real(res)>>)).out.data[1].re

\* torch.all
All(keepGoing) == \A e \in DOMAIN keepGoing : keepGoing[e] # 0

\* the residual update with epsig applied to the new term, not to the
\* running value
ResidualStepOnDelta(keepGoing, delta, epsig, result) ==
    CAdd(CScale(R(keepGoing), CAdd(CScale(epsig, delta), result)),
         CScale(R(1 - keepGoing), result))

\* (keepGoing * (delta + (epsig * result))) + ((1 - keepGoing) * result)
ResidualStep(keepGoing, delta, epsig, result) ==
    CAdd(CScale(R(keepGoing), CAdd(delta, CScale(epsig, result))),
         CScale(R(1 - keepGoing), result))

\* the loop condition with the bound on idx off by one
LoopContinuesInclusive(keepGoing, idx, maxiter) == All(keepGoing) /\ idx <= maxiter

\* while torch.all(keepGoing) and idx < maxiter
LoopContinues(keepGoing, idx, maxiter) == All(keepGoing) /\ idx < maxiter

\* the term of iteration n, element e, of the function being run
Term(f, a, keepGoing, e, n) ==
    IF f = "hzetae"
    THEN hzetaitr(a.s[e] * keepGoing, a.a[e], n)
    ELSE lerchitr(RMul(a.lam, R(keepGoing)), a.s[e] * keepGoing, a.a[e], n)

\* the lines before the loop: epsig, idx, the first value and keepGoing
ZetaStart(f) ==
    /\ fn = f
    /\ pc = "entry"
    /\ LET result == [e \in DOMAIN args.s |-> Term(f, args, 1, e, 0)]
       IN  locals' = [epsig |-> Epsig(args.res),
                      idx |-> 1,
                      delta |-> result,
                      result |-> result,
                      keepGoing |-> [e \in DOMAIN args.s |-> AbsGe(result[e], args.aeps)]]
    /\ pc' = "loop"
    /\ UNCHANGED <<fn, args, ret>>

\* one run of the loop body
ZetaStep(f) ==
    /\ fn = f
    /\ pc = "loop"
    /\ LoopContinues(locals.keepGoing, locals.idx, args.maxiter)
    /\ LET delta == [e \in DOMAIN args.s |->
                        Term(f, args, locals.keepGoing[e], e, locals.idx)]
           result == [e \in DOMAIN args.s |->
                        ResidualStep(locals.keepGoing[e], delta[e],
                                     locals.epsig, locals.result[e])]
       IN  locals' = [locals EXCEPT
                        !.delta = delta,
                        !.result = result,
                        !.keepGoing = [e \in DOMAIN args.s |-> AbsGe(result[e], args.aeps)],
                        !.idx = locals.idx + 1]
    /\ UNCHANGED <<fn, pc, args, ret>>

\* the loop ends and the result is returned
ZetaReturn(f) ==
    /\ fn = f
    /\ pc = "loop"
    /\ ~LoopContinues(locals.keepGoing, locals.idx, args.maxiter)
    /\ ret' = [kind |-> "value", out |-> locals.result]
    /\ pc' = "done"
    /\ UNCHANGED <<fn, args, locals>>

HzetaeStart == ZetaStart("hzetae")

HzetaeStep == ZetaStep("hzetae")

HzetaeReturn == ZetaReturn("hzetae")

LercheStart == ZetaStart("lerche")

LercheStep == ZetaStep("lerche")

LercheReturn == ZetaReturn("lerche")

\* number of elements of s and a
NElems == 2

\* largest maxiter passed
MaxIter == 4

Infinity == [n |-> 1, d |-> 0]

\* s: exponents; a: offsets; res: the residual (saturating the sigmoid at
\* both ends, and 0); aeps; lam: quarter and half
SVals == {1, 2}

AVals == {R(1), R(3)}

ResVals == {RNeg(Infinity), R(0), Infinity}

AepsVals == {Norm(1, 8), Norm(1, 2), R(-2)}

LamVals == {Norm(1, 4), Norm(1, 2)}

ZetaArgs ==
    [s : [1..NElems -> SVals], a : [1..NElems -> AVals], res : ResVals,
     aeps : AepsVals, maxiter : 0..MaxIter]

LercheArgs ==
    [lam : LamVals, s : [1..NElems -> SVals], a : [1..NElems -> AVals], res : ResVals,
     aeps : AepsVals, maxiter : 0..MaxIter]

InitZeta ==
    /\ \/ fn = "hzetae" /\ args \in ZetaArgs
       \/ fn = "lerche" /\ args \in LercheArgs
    /\ pc = "entry"
    /\ locals = NoLocals
    /\ ret = NoReturn

NextZeta ==
    \/ HzetaeStart \/ HzetaeStep \/ HzetaeReturn
    \/ LercheStart \/ LercheStep \/ LercheReturn

SpecZeta == InitZeta /\ [][NextZeta]_vars

-----------------------------------------------------------------------------
(* Claims about the math kernels, checked under SpecMath *)

Returned(f) == pc = "done" /\ fn = f /\ ret.kind = "value"

\* C1: isoftmax (for any dim), icos and isin return a tensor of the shape of
\* their input, for every input shape, real or complex.
C1_ShapePreserved ==
    \A f \in {"isoftmax", "icos", "isin"} :
        Returned(f) => ret.out.shape = args.x.shape

\* C2: for an input that is not complex isoftmax, icos, isin and isigmoid
\* return exactly torch's softmax, cos, sin and sigmoid of it (and fail as
\* softmax does on a dim the input does not have); the real branch is taken
\* exactly for the inputs that are not complex.
C2_RealInputStandard ==
    pc = "done" =>
        /\ (locals.branch = "real") = ~args.x.cplx
        /\ (locals.branch = "complex") = args.x.cplx
        /\ ~args.x.cplx =>
            /\ fn = "isoftmax" =>
                IF DimOK(args.x.shape, args.dim)
                THEN ret.kind = "value" /\ ret.out = Softmax(args.x, args.dim)
                ELSE ret.kind = "error"
            /\ fn = "icos" => ret.kind = "value" /\ ret.out = TorchCos(args.x)
            /\ fn = "isin" => ret.kind = "value" /\ ret.out = TorchSin(args.x)
            /\ fn = "isigmoid" => ret.kind = "value" /\ ret.out = TorchSigmoid(args.x)

\* a real matrix with two different values has gone through isoftmax
C2_Witness ==
    /\ Returned("isoftmax")
    /\ ~args.x.cplx
    /\ args.x.shape = <<2, 2>>
    /\ args.dim = 0
    /\ args.x.data[1] # args.x.data[3]
    /\ locals.branch = "real"

\* the magnitudes of a complex tensor, as a real tensor
Magnitudes(x) ==
    [x EXCEPT !.cplx = FALSE, !.data = [k \in DOMAIN x.data |-> Real(CAbs(x.data[k]))]]

\* C3: for a complex input isoftmax keeps the phase angle of every element
\* and replaces its magnitude by the softmax, along dim, of the magnitudes of
\* the input; the output magnitudes are non-negative and those of every lane
\* along dim that an element lies on sum to 1.
C3_PhaseKeptMagnitudeSoftmax ==
    (Returned("isoftmax") /\ args.x.cplx) =>
        LET out == ret.out
            mag == Magnitudes(out)
            d == WrapDim(args.x.shape, args.dim)
        IN  /\ out.shape = args.x.shape
            /\ out.cplx
            /\ mag = Softmax(Magnitudes(args.x), args.dim)
            /\ \A k \in DOMAIN out.data :
                /\ CAngle(out.data[k]) = CAngle(args.x.data[k])
                /\ RGe(mag.data[k].re, R(0))
                /\ RSum([j \in DOMAIN mag.data |-> mag.data[j].re],
                        Lane(out.shape, d, k)) = R(1)

\* a complex matrix with unequal magnitudes, one element off the axes and one
\* zero, has gone through isoftmax along its first dimension
C3_Witness ==
    /\ Returned("isoftmax")
    /\ args.x.cplx
    /\ args.x.shape = <<2, 2>>
    /\ args.dim = -2
    /\ args.x.data[1] = CI(-4, -3)
    /\ args.x.data[3] = CI(0, 0)
    /\ args.x.data[2] = CI(0, 1)
    /\ ret.out.data[1] # ret.out.data[2]

\* C8: for every complex input xc, isin(xc) equals i() * icos(xc).
C8_SinIsShiftedCos ==
    (Returned("isin") /\ args.x.cplx) =>
        ret.out = TMul(ITensor, icos(args.x).out)

\* C9: for every complex input xc, icos(xc) equals
\* exp(i() * xc.real) + exp(i() * xc.imag) - 1.
C9_CosIsSumOfExponentials ==
    (Returned("icos") /\ args.x.cplx) =>
        LET out == BroadcastShape(ITensor.shape, args.x.shape)
            xs == Expand(args.x, out)
        IN  ret.out = Tensor(out, TRUE, [k \in 1..Numel(out) |->
                          CSub(CAdd(ExpIReal(xs[k].re), ExpIReal(xs[k].im)), CI(1, 0))])

-----------------------------------------------------------------------------
(* Claims about hzetae and lerche, checked under SpecZeta *)

InZeta == fn \in {"hzetae", "lerche"}

\* C4: hzetae and lerche stop iterating only when maxiter is reached or when
\* every element of the result is below aeps in magnitude: they never return
\* before maxiter while some element is still at or above aeps.
C4_StopsOnlyWhenUnanimous ==
    (InZeta /\ pc = "done") =>
        \/ locals.idx >= args.maxiter
        \/ \A e \in DOMAIN ret.out : AbsGe(ret.out[e], args.aeps) = 0

RECURSIVE WeightedSum(_, _, _, _, _)
\* sum over n = from..k of epsig^(k - n) * (n + a)^(-s)
WeightedSum(epsig, s, a, k, from) ==
    IF from > k THEN R(0)
    ELSE RAdd(RMul(RPow(epsig, k - from), RPow(RAdd(R(from), a), -s)),
              WeightedSum(epsig, s, a, k, from + 1))

\* C5: in hzetae, after k runs of the loop body the result is the sum over
\* n = 0..k of epsig^(k-n) * (n + a)^(-s), epsig = sigmoid(res); with epsig = 1
\* it is the partial sum of the Hurwitz zeta series and with epsig = 0 it is
\* the latest term (k + a)^(-s).
C5_ResidualWeightedSum ==
    (fn = "hzetae" /\ pc \in {"loop", "done"}) =>
        LET k == locals.idx - 1
            epsig == Sigmoid(args.res)
        IN  \A e \in DOMAIN locals.result :
                /\ locals.result[e] =
                       Real(WeightedSum(epsig, args.s[e], args.a[e], k, 0))
                /\ epsig = R(1) =>
                       locals.result[e] =
                           Real(WeightedSum(R(1), args.s[e], args.a[e], k, 0))
                /\ epsig = R(0) =>
                       locals.result[e] = Real(RPow(RAdd(R(k), args.a[e]), -args.s[e]))

\* hzetae has run its loop body three times with a residual factor of 1/2
C5_Witness ==
    /\ fn = "hzetae"
    /\ pc = "done"
    /\ locals.idx = 4
    /\ locals.epsig = Norm(1, 2)
    /\ args.s[1] # args.s[2]

\* C6: hzetae and lerche always terminate: the loop body runs at most
\* max(0, maxiter - 1) times (idx starts at 1, grows by one with every run of
\* the body and never passes maxiter once the loop has run), every step
\* before the return is a run of the body or the return itself, and what is
\* returned is the current result, as a value, converged or not.
C6_Terminates ==
    /\ []((InZeta /\ pc \in {"loop", "done"}) =>
            /\ locals.idx >= 1
            /\ locals.idx - 1 <= (IF args.maxiter >= 1 THEN args.maxiter - 1 ELSE 0))
    /\ []((InZeta /\ pc = "done") => ret.kind = "value" /\ ret.out = locals.result)
    /\ [][(InZeta /\ pc = "entry") => (pc' = "loop" /\ locals'.idx = 1)]_vars
    /\ [][(InZeta /\ pc = "loop") =>
            \/ pc' = "loop" /\ locals'.idx = locals.idx + 1
            \/ pc' = "done" /\ locals' = locals]_vars

\* lerche has returned at maxiter with every element still at or above aeps
C6_Witness ==
    /\ fn = "lerche"
    /\ pc = "done"
    /\ args.maxiter = MaxIter
    /\ locals.idx = args.maxiter
    /\ All(locals.keepGoing)
    /\ ret.kind = "value"

-----------------------------------------------------------------------------
(* attention.py: Turbulence.forward.  Only the sizes of queries and states  *)
(* decide the assertion; the stages after it are recorded in the order the *)
(* code evaluates them.                                                     *)

\* the size comparison with only the last dimension compared
SizesEqualLastDim(a, b) ==
    Len(a) = Len(b) /\ (Len(a) > 0 => a[Len(a)] = b[Len(b)])

\* states.size() == inputSize
SizesEqual(a, b) == a = b

\* the evaluations of forward after the assertion, in program order
ForwardStages ==
    <<"ifft", "fft", "egoKnot", "worldKnot", "integralKnot", "basisKnot",
      "parietalEntangler", "warpEntangler", "warpKnot", "compressorKnot",
      "grid_sample", "grid_sample", "fft", "ifft">>

\* inputSize = queries.size(); assert states.size() == inputSize
ForwardAssert ==
    /\ fn = "forward"
    /\ pc = "entry"
    /\ IF SizesEqual(args.states, args.queries)
       THEN /\ pc' = "stages"
            /\ locals' = [inputSize |-> args.queries, evaluated |-> <<>>]
            /\ ret' = ret
       ELSE /\ pc' = "done"
            /\ locals' = [inputSize |-> args.queries, evaluated |-> <<>>]
            /\ ret' = [kind |-> "error", err |-> "AssertionError"]
    /\ UNCHANGED <<fn, args>>

\* the next evaluation of the body
ForwardStage ==
    /\ fn = "forward"
    /\ pc = "stages"
    /\ Len(locals.evaluated) < Len(ForwardStages)
    /\ locals' = [locals EXCEPT
                    !.evaluated = Append(@, ForwardStages[Len(@) + 1])]
    /\ UNCHANGED <<fn, pc, args, ret>>

\* return result
ForwardReturn ==
    /\ fn = "forward"
    /\ pc = "stages"
    /\ Len(locals.evaluated) = Len(ForwardStages)
    /\ pc' = "done"
    /\ ret' = [kind |-> "value"]
    /\ UNCHANGED <<fn, args, locals>>

InitTurbulence ==
    /\ fn = "forward"
    /\ args \in [queries : Shapes, states : Shapes]
    /\ pc = "entry"
    /\ locals = NoLocals
    /\ ret = NoReturn

NextTurbulence == ForwardAssert \/ ForwardStage \/ ForwardReturn

SpecTurbulence == InitTurbulence /\ [][NextTurbulence]_vars

\* C7: Turbulence.forward fails with an assertion error whenever
\* states.size() differs from queries.size(), before any knot, entangler, FFT
\* or grid sampling is evaluated; with equal sizes the assertion never fails.
C7_AssertsSizesFirst ==
    (fn = "forward" /\ pc # "entry") =>
        /\ args.states # args.queries =>
            /\ pc = "done"
            /\ ret = [kind |-> "error", err |-> "AssertionError"]
            /\ locals.evaluated = <<>>
        /\ args.states = args.queries => ret.kind # "error"
        /\ locals.evaluated # <<>> => args.states = args.queries

\* forward has failed on sizes of one rank that differ in their first
\* dimension only
C7_Witness ==
    /\ fn = "forward"
    /\ pc = "done"
    /\ ret.kind = "error"
    /\ args.queries = <<1, 2>>
    /\ args.states = <<2, 2>>

-----------------------------------------------------------------------------
(* lens.py: lens(), one lens value at a time, up to the sampling positions  *)
(* handed to weightedResample.                                              *)

\* lens values are multiples of 1/4 up to MaxLensQuarters / 4 in magnitude
MaxLensQuarters == 14

\* x.size(dim)
MaxSize == 3

MaxPadding == 2

\* ((lensSquish - (lensCast * lensClip * lensSign)) * 2.) - 1.
ClippedIntrinsics(lensSquish, lensCast, lensClip, lensSign) ==
    RSub(RMul(RSub(lensSquish, RMul(RMul(R(lensCast), R(lensClip)), lensSign)),
              R(2)),
         R(1))

\* the body of lens() up to padIntrinsics
LensCall ==
    /\ fn = "lens"
    /\ pc = "entry"
    /\ LET lensSquish == RDiv(RAdd(args.lens, R(1)), R(2))
           lensCast == RTrunc(lensSquish)
           lensClip == IF RLt(R(1), RAbs(args.lens)) THEN 1 ELSE 0
           lensSign == RSign(args.lens)
           clippedIntrinsics == ClippedIntrinsics(lensSquish, lensCast, lensClip, lensSign)
           lensScalar == Norm(args.size, args.size + 2 * args.padding)
       IN  locals' = [lensSquish |-> lensSquish,
                      lensCast |-> lensCast,
                      lensClip |-> lensClip,
                      lensSign |-> lensSign,
                      clippedIntrinsics |-> clippedIntrinsics,
                      lensScalar |-> lensScalar,
                      padIntrinsics |-> RMul(lensScalar, clippedIntrinsics)]
    /\ pc' = "done"
    /\ ret' = [kind |-> "value"]
    /\ UNCHANGED <<fn, args>>

InitLens ==
    /\ fn = "lens"
    /\ args \in [lens : {Norm(k, 4) : k \in (-MaxLensQuarters)..MaxLensQuarters},
                 size : 1..MaxSize,
                 padding : 0..MaxPadding]
    /\ pc = "entry"
    /\ locals = NoLocals
    /\ ret = NoReturn

NextLens == LensCall

SpecLens == InitLens /\ [][NextLens]_vars

\* C10: lens() clips every lens value v circularly into the sampling range:
\* the clipped intrinsic lies in [-1, 1] and differs from v by an even
\* integer, for positive and negative v alike, and equals v when |v| <= 1;
\* after scaling by size / (size + 2 * padding) every sampling position lies
\* inside the unpadded part of the padded signal.
C10_ClippedIntoRange ==
    (fn = "lens" /\ pc = "done") =>
        LET v == args.lens
            c == locals.clippedIntrinsics
            wrap == RSub(v, c)
        IN  /\ RGe(c, R(-1)) /\ RGe(R(1), c)
            /\ wrap.d = 1 /\ wrap.n % 2 = 0
            /\ RGe(R(1), RAbs(v)) => c = v
            /\ RGe(locals.lensScalar, RAbs(locals.padIntrinsics))

-----------------------------------------------------------------------------
(* lens.py: PolarLens, its constructor and setDirection.                    *)

\* the members of PolarLensPosition, a plain Enum
PolarLensPosition ==
    [NS |-> [type |-> "PolarLensPosition", value |-> 0],
     SN |-> [type |-> "PolarLensPosition", value |-> 1]]

TypeError == [kind |-> "error", err |-> "TypeError"]

\* (2 * int(dir)) - 1: int() is defined for an int; a member of a plain Enum
\* has no __int__ and int() raises TypeError
DirectionSign(dir) ==
    IF dir.type = "int" THEN [kind |-> "value", value |-> (2 * dir.value) - 1]
    ELSE TypeError

\* PolarLens.setDirection on the fields of self: the fields afterwards, or
\* the error raised
setDirection(self, dir) ==
    LET v == DirectionSign(dir)
    IN  IF v.kind = "error" THEN v
        ELSE [kind |-> "value", self |-> [self EXCEPT !.lensDir = v.value]]

MaxSamples == 4

MaxCorrSamples == 4

MaxAbsPadding == 3

\* PolarLens.__init__: the fields of the new lens in locals, or the error
\* raised while they are built
PolarLensInit ==
    /\ fn = "PolarLens"
    /\ pc = "entry"
    /\ LET lensDir == DirectionSign(PolarLensPosition.NS)
       IN  IF lensDir.kind = "error"
           THEN /\ locals' = NoLocals
                /\ ret' = lensDir
                /\ pc' = "done"
           ELSE /\ locals' = [lensBasis |-> "zeros",
                              lensDir |-> lensDir.value,
                              signalPadding |-> IAbs(args.padding)]
                /\ ret' = [kind |-> "value"]
                /\ pc' = "ready"
    /\ UNCHANGED <<fn, args>>

InitPolarLens ==
    /\ fn = "PolarLens"
    /\ args \in [samples : 1..MaxSamples,
                 padding : (-MaxAbsPadding)..MaxAbsPadding,
                 corrSamples : 1..MaxCorrSamples]
    /\ pc = "entry"
    /\ locals = NoLocals
    /\ ret = NoReturn

\* the constructor is the one step: setDirection needs a constructed lens,
\* and the constructor leaves none
SpecPolarLens == InitPolarLens /\ [][PolarLensInit]_vars

\* C11: a PolarLens is constructed looking NS, lensDir = -1, with
\* signalPadding = |padding|; setDirection(NS) sets lensDir to -1 and
\* setDirection(SN) to +1, changing lensDir only, so that lensDir is never
\* another value and the intrinsics lensDir * irfft(softlens) under SN are the
\* negation of those under NS.
C11_DirectionReversesLens ==
    (fn = "PolarLens" /\ pc # "entry") =>
        /\ ret.kind = "value"
        /\ locals # NoLocals
        /\ locals.lensDir = -1
        /\ locals.signalPadding = IAbs(args.padding)
        /\ \A m \in {"NS", "SN"} :
              LET r == setDirection(locals, PolarLensPosition[m])
              IN  /\ r.kind = "value"
                  /\ r.self.lensDir = (IF m = "NS" THEN -1 ELSE 1)
                  /\ r.self.lensBasis = locals.lensBasis
                  /\ r.self.signalPadding = locals.signalPadding

-----------------------------------------------------------------------------
(* math.py: xbias and harmonicvals. A vector is a sequence of rationals, a  *)
(* matrix a sequence of rows.                                               *)

AssertionError(branch) ==
    [kind |-> "error", branch |-> branch, err |-> "AssertionError"]

\* zeros((n)).add(bias), then composer[i].add_(i) for i in range(n)
xbias(n, bias) == [k \in 1..n |-> R(bias + (k - 1))]

harmonicvals(n, nosum, addzero) ==
    LET \* t.ones((rows, cols))
        Ones(rows, cols) == [r \in 1..rows |-> [c \in 1..cols |-> R(1)]]
        \* a @ b for matrices
        MatMul(a, b) ==
            [r \in 1..Len(a) |-> [c \in 1..Len(b[1]) |->
                RSum([k \in 1..Len(b) |-> RMul(a[r][k], b[k][c])], 1..Len(b))]]
        \* t.triu(m, diagonal): the entries with column - row >= diagonal,
        \* 0 elsewhere
        Triu(m, diagonal) ==
            [r \in 1..Len(m) |-> [c \in 1..Len(m[r]) |->
                IF c - r >= diagonal THEN m[r][c] ELSE R(0)]]
        \* m.transpose(-1, -2)
        Transpose(m) == [c \in 1..Len(m[1]) |-> [r \in 1..Len(m) |-> m[r][c]]]
        \* m.sum(dim=-1)
        SumLast(m) == [r \in 1..Len(m) |-> RSum(m[r], 1..Len(m[r]))]
        zeroint == IF addzero THEN 1 ELSE 0
        bias == xbias(n + zeroint, 1 - zeroint)
        factors == [k \in 1..(n + zeroint) |-> RDiv(R(1), bias[k])]
    IN  IF ~(n >= 1) THEN AssertionError("assert")
        ELSE IF nosum THEN Value("nosum", factors)
        ELSE LET composition == Triu(MatMul(Ones(n, 1), <<factors>>), 0)
             IN  Value("sum", SumLast(Transpose(composition)))

MaxHarmonic == 12

Harmonicvals ==
    /\ fn = "harmonicvals"
    /\ Return(harmonicvals(args.n, args.nosum, args.addzero))

InitHarmonic ==
    /\ fn = "harmonicvals"
    /\ args \in [n : (-1)..MaxHarmonic, nosum : BOOLEAN, addzero : BOOLEAN]
    /\ pc = "entry"
    /\ locals = NoLocals
    /\ ret = NoReturn

SpecHarmonic == InitHarmonic /\ [][Harmonicvals]_vars

\* H_k = 1/1 + 1/2 + ... + 1/k
RECURSIVE HarmonicNumber(_)
HarmonicNumber(k) ==
    IF k = 0 THEN R(0) ELSE RAdd(HarmonicNumber(k - 1), Norm(1, k))

\* C12: for n >= 1 and addzero = False, harmonicvals(n) returns n values,
\* the k-th being the harmonic number H_k when nosum = False and the factor
\* 1/k when nosum = True; for n < 1 it fails its assertion.
C12_HarmonicNumbers ==
    (fn = "harmonicvals" /\ pc = "done") =>
        /\ args.n < 1 => (ret.kind = "error" /\ ret.err = "AssertionError")
        /\ (args.n >= 1 /\ ~args.addzero) =>
              /\ ret.kind = "value"
              /\ Len(ret.out) = args.n
              /\ \A k \in 1..args.n :
                    ret.out[k] = (IF args.nosum THEN Norm(1, k)
                                  ELSE HarmonicNumber(k))

-----------------------------------------------------------------------------
(* math.py: primishvals. An int64 vector is a sequence of integers.         *)

\* v[:n], also for a negative n, which counts from the end
SliceTo(v, n) ==
    IF n >= 0 THEN SubSeq(v, 1, IF n < Len(v) THEN n ELSE Len(v))
    ELSE SubSeq(v, 1, IF Len(v) + n < 0 THEN 0 ELSE Len(v) + n)

PitrNoOffset(itr) == RTrunc(Norm(itr - 3, 2))

\* int((itr - 3) / 2) + 1
Pitr(itr) == RTrunc(Norm(itr - 3, 2)) + 1

\* the while loop of primishvals; itr is the 0-based index written next
RECURSIVE PrimishLoop(_, _, _, _)
PrimishLoop(result, itr, n, gaussApprox) ==
    IF ~(itr < n) THEN result
    ELSE LET pitr == Pitr(itr)
             val == IF itr % 2 # 0
                    THEN (IF gaussApprox THEN (4 * pitr) + 1 ELSE (6 * pitr) - 1)
                    ELSE result[itr] + 2
         IN  PrimishLoop([result EXCEPT ![itr + 1] = val], itr + 1, n, gaussApprox)

primishvals(n, base, gaussApprox) ==
    LET \* t.ones(3), base[1] += base[0], base[2] += base[1]
        ones == <<1, 1, 1>>
        b1 == [ones EXCEPT ![2] = @ + ones[1]]
        b2 == [b1 EXCEPT ![3] = @ + b1[2]]
        b == IF Len(base) < 3 THEN b2 ELSE base
    IN  IF n <= Len(b) THEN Value("base", SliceTo(b, n))
        ELSE LET result == [k \in 1..n |-> IF k <= Len(b) THEN b[k] ELSE 0]
             IN  Value("loop", PrimishLoop(result, Len(b), n, gaussApprox))

MaxPrimish == 12

Primishvals ==
    /\ fn = "primishvals"
    /\ Return(primishvals(args.n, args.base, args.gaussApprox))

InitPrimish ==
    /\ fn = "primishvals"
    \* the default (empty) base, a base too short to be kept, and bases kept
    /\ args \in [n : (-2)..MaxPrimish,
                 base : {<<>>, <<7>>, <<1, 2, 3>>, <<1, 2, 3, 5>>, <<2, 4, 6, 8>>,
                         <<1, 2, 3, 5, 7>>},
                 gaussApprox : BOOLEAN]
    /\ pc = "entry"
    /\ locals = NoLocals
    /\ ret = NoReturn

SpecPrimish == InitPrimish /\ [][Primishvals]_vars

\* C13: with the default base and n >= 0, primishvals(n) returns n strictly
\* increasing values: 1, 2, 3, then at index 3+2j the value 6(j+1)-1 and at
\* index 4+2j the value 6(j+1)+1 (indices from 0). A given base of length
\* >= 3 is kept unchanged at the front of the result.
C13_PrimishEnumerated ==
    (fn = "primishvals" /\ pc = "done" /\ args.n >= 0) =>
        /\ ret.kind = "value"
        /\ Len(ret.out) = args.n
        /\ (args.base = <<>> /\ ~args.gaussApprox) =>
              /\ \A k \in 1..(args.n - 1) : ret.out[k] < ret.out[k + 1]
              /\ \A k \in 1..3 : k <= args.n => ret.out[k] = k
              /\ \A j \in 0..args.n :
                    /\ 3 + 2 * j < args.n => ret.out[4 + 2 * j] = 6 * (j + 1) - 1
                    /\ 4 + 2 * j < args.n => ret.out[5 + 2 * j] = 6 * (j + 1) + 1
        /\ Len(args.base) >= 3 =>
              \A k \in 1..Len(args.base) : k <= args.n => ret.out[k] = args.base[k]

\* the default base has been extended past 6x+1 for x = 2
C13_Witness ==
    /\ fn = "primishvals"
    /\ pc = "done"
    /\ args = [n |-> 8, base |-> <<>>, gaussApprox |-> FALSE]
    /\ ret.out = <<1, 2, 3, 5, 7, 11, 13, 17>>

-----------------------------------------------------------------------------
(* math.py: realprimishdist, one element x of the input at a time.          *)

\* v.sort(dim=-1, descending=False).values
RECURSIVE Sort(_)
Sort(v) ==
    IF v = <<>> THEN <<>>
    ELSE LET m == CHOOSE m \in {v[k] : k \in DOMAIN v} : \A k \in DOMAIN v : m <= v[k]
             at == CHOOSE k \in DOMAIN v : v[k] = m
         IN  <<m>> \o Sort(SubSeq(v, 1, at - 1) \o SubSeq(v, at + 1, Len(v)))

realprimishdist(x, relative, gaussApprox) ==
    LET \* .max(dim=-1).values and .min(dim=-1).values of a vector
        RMax(v) == CHOOSE m \in {v[k] : k \in DOMAIN v} : \A k \in DOMAIN v : RGe(m, v[k])
        RMin(v) == CHOOSE m \in {v[k] : k \in DOMAIN v} : \A k \in DOMAIN v : RGe(v[k], m)
        step == IF gaussApprox THEN 4 ELSE 6
        off == IF gaussApprox THEN 3 ELSE 1
        iprimeGuessTop == RTrunc(RDiv(RSub(x.value, R(off)), R(step)))
        iprimeGuessBot == RTrunc(RDiv(RAdd(x.value, R(off)), R(step)))
        primishTop == <<(iprimeGuessTop * step) + off, ((iprimeGuessTop + 1) * step) + off>>
        primishBot == <<(iprimeGuessBot * step) - off, ((iprimeGuessBot + 1) * step) - off>>
        specialPrimes == <<-1, 1, 2, 3>>
        \* the sorted candidates: the two 6k+1 (4k+3) and the two 6k-1 (4k-3)
        \* values around the truncated guesses, and the special primes
        primish == Sort((primishTop \o primishBot) \o specialPrimes)
        \* the greatest candidate <= x, or the least candidate when there is
        \* none
        low == RMax([k \in DOMAIN primish |->
                  LET lowidx == IF RGe(x.value, R(primish[k])) THEN 1 ELSE 0
                  IN  RAdd(RMul(R(primish[k]), R(lowidx)),
                           RMul(R(1 - lowidx), R(primish[1])))])
        \* the least candidate > x, or the greatest candidate when there is
        \* none
        high == RMin([k \in DOMAIN primish |->
                  LET highidx == IF RLt(x.value, R(primish[k])) THEN 1 ELSE 0
                  IN  RAdd(RMul(R(primish[k]), R(highidx)),
                           RMul(R(1 - highidx), R(primish[Len(primish)])))])
        lowDist == RSub(x.value, low)
        highDist == RSub(high, x.value)
        highLower == IF RLt(highDist, lowDist) THEN 1 ELSE 0
        result == RAdd(RMul(R(highLower), highDist), RMul(R(1 - highLower), lowDist))
    IN  IF x.cplx THEN AssertionError("assert")
        ELSE IF relative /\ ~gaussApprox
        THEN Value("relative", RDiv(result, RDiv(RSub(high, low), R(2))))
        ELSE Value("absolute", result)

\* x ranges over the multiples of 1/2 up to MaxDistHalves / 2 in magnitude
MaxDistHalves == 30

Realprimishdist ==
    /\ fn = "realprimishdist"
    /\ Return(realprimishdist(args.x, args.relative, args.gaussApprox))

InitPrimishDist ==
    /\ fn = "realprimishdist"
    /\ args \in [x : [cplx : BOOLEAN,
                      value : {Norm(k, 2) : k \in (-MaxDistHalves)..MaxDistHalves}],
                 relative : BOOLEAN,
                 gaussApprox : BOOLEAN]
    /\ pc = "entry"
    /\ locals = NoLocals
    /\ ret = NoReturn

SpecPrimishDist == InitPrimishDist /\ [][Realprimishdist]_vars

\* membership in {-1, 1, 2, 3} united with all 6k-1 and 6k+1
IsPrimish(p) == p \in {-1, 1, 2, 3} \/ p % 6 \in {1, 5}

\* C14: for every real x, negative values included,
\* realprimishdist(x, relative=False, gaussApprox=False) is the non-negative
\* distance from x to the nearest member of {-1, 1, 2, 3} united with all
\* 6k-1 and 6k+1, and so is 0 exactly when x is a member.
C14_DistanceToNearestPrimish ==
    (/\ fn = "realprimishdist" /\ pc = "done"
     /\ ~args.x.cplx /\ ~args.relative /\ ~args.gaussApprox) =>
        LET x == args.x.value
            near == {p \in (RTrunc(x) - 7)..(RTrunc(x) + 7) : IsPrimish(p)}
            dist == CHOOSE d \in {RAbs(RSub(x, R(p))) : p \in near} :
                        \A p \in near : RGe(RAbs(RSub(x, R(p))), d)
        IN  /\ ret.kind = "value"
            /\ RGe(ret.out, R(0))
            /\ ret.out = dist
            /\ (ret.out = R(0)) <=> (x.d = 1 /\ IsPrimish(x.n))

-----------------------------------------------------------------------------
(* constants.py: the constant getters. A result is a tensor's dtype, shape  *)
(* and, by name, the number it holds. DEFAULT_DTYPE, set by defaults.py, is *)
(* part of the call's environment.                                          *)

\* t.tensor((number), dtype=dtype): a tensor with no dimensions
TorchTensor(number, dtype) == [dtype |-> dtype, shape |-> <<>>, value |-> number]

\* t.ones((1), dtype=dtype)
TorchOnes(size, dtype) == [dtype |-> dtype, shape |-> <<size>>, value |-> "1"]

\* an operation of a tensor with Python numbers, or of one tensor: the dtype
\* and the shape are the tensor's
Elementwise(op, x) == [x EXCEPT !.value = <<op, @>>]

\* the dtype of a call: the one passed, or the default of the parameter
Requested(a) == IF a.dtype = "default" THEN a.DEFAULT_DTYPE ELSE a.dtype

pi(dtype) == TorchTensor("3.14159265358979323846", dtype)

\* pi() is called without the dtype
tau(dtype, DEFAULT_DTYPE) == Elementwise("* 2.", pi(DEFAULT_DTYPE))

egamma(dtype) == TorchTensor("0.57721566490153286060", dtype)

phi(dtype) ==
    LET one == TorchOnes(1, dtype)
        square == Elementwise("sqrt", Elementwise("* 5", one))
        \* one + square: the shapes broadcast
        sum == [dtype |-> one.dtype,
                shape |-> BroadcastShape(one.shape, square.shape),
                value |-> <<"+", one.value, square.value>>]
    IN  Elementwise("/ 2", sum)

asigphi(dtype) == Elementwise("-", Elementwise("log", Elementwise("- 1", phi(dtype))))

\* a getter returns its tensor
Getter(out) ==
    /\ pc = "entry"
    /\ pc' = "done"
    /\ ret' = [kind |-> "value", out |-> out]
    /\ UNCHANGED <<fn, args, locals>>

Pi == fn = "pi" /\ Getter(pi(Requested(args)))

Tau == fn = "tau" /\ Getter(tau(Requested(args), args.DEFAULT_DTYPE))

Egamma == fn = "egamma" /\ Getter(egamma(Requested(args)))

Phi == fn = "phi" /\ Getter(phi(Requested(args)))

Asigphi == fn = "asigphi" /\ Getter(asigphi(Requested(args)))

InitConstants ==
    /\ fn \in {"pi", "tau", "egamma", "phi", "asigphi"}
    /\ args \in [dtype : {"default", "float16", "bfloat16", "float32", "float64",
                          "complex64", "complex128"},
                 DEFAULT_DTYPE : {"float32", "float64"}]
    /\ pc = "entry"
    /\ locals = NoLocals
    /\ ret = NoReturn

NextConstants == Pi \/ Tau \/ Egamma \/ Phi \/ Asigphi

SpecConstants == InitConstants /\ [][NextConstants]_vars

\* C15: pi, tau, egamma, phi and asigphi return their value in the dtype
\* requested, whichever dtype is passed.
C15_RequestedDtype ==
    (fn \in {"pi", "tau", "egamma", "phi", "asigphi"} /\ pc = "done") =>
        ret.out.dtype = Requested(args)

\* C16: pi(), tau(), egamma() and phi() each return a tensor of size (1):
\* one dimension, holding one element.
C16_SizeOne ==
    (fn \in {"pi", "tau", "egamma", "phi"} /\ pc = "done") =>
        ret.out.shape = <<1>>

-----------------------------------------------------------------------------
(* knowledge/aggregator.py: Aggregator, its collider list and addCollider.  *)
(* locals holds the fields of the aggregator and the interpreter's          *)
(* __debug__ flag (False under python -O, where assert statements are not   *)
(* executed); args holds the last call.                                     *)

\* the class object KnowledgeCollider, and instances of it
KnowledgeCollider == [type |-> "type", id |-> 0]

MaxInstances == 2

Instances == {[type |-> "KnowledgeCollider", id |-> k] : k \in 1..MaxInstances}

\* __colliderCaster__: assert collider is KnowledgeCollider, an identity
\* test against the class; the collider, or the assertion's failure
colliderCaster(debug, collider) ==
    IF debug /\ ~(collider = KnowledgeCollider)
    THEN [kind |-> "error", err |-> "AssertionError"]
    ELSE [kind |-> "value", out |-> collider]

MaxCalls == 3

\* aggregator.addCollider(collider)
AddCollider ==
    /\ fn = "Aggregator"
    /\ locals.calls < MaxCalls
    /\ \E collider \in Instances \cup {KnowledgeCollider} :
          LET cast == colliderCaster(locals.debug, collider)
              \* nn.ModuleList.append: a module is appended, anything
              \* else is refused
              appended == IF collider.type = "type" THEN TypeError
                          ELSE [kind |-> "value",
                                out |-> Append(locals.colliders, collider)]
          IN  /\ args' = [call |-> "addCollider", collider |-> collider]
              /\ IF cast.kind = "error"
                 THEN /\ ret' = cast
                      /\ locals' = [locals EXCEPT !.calls = @ + 1]
                 ELSE IF appended.kind = "error"
                 THEN /\ ret' = appended
                      /\ locals' = [locals EXCEPT !.calls = @ + 1]
                 ELSE /\ ret' = [kind |-> "value"]
                      /\ locals' = [locals EXCEPT !.calls = @ + 1,
                                                  !.colliders = appended.out]
    /\ UNCHANGED <<fn, pc>>

\* after Aggregator(colliders=...): the list given, empty for None
InitAggregator ==
    /\ fn = "Aggregator"
    /\ pc = "ready"
    /\ \E colliders \in UNION {[1..n -> Instances] : n \in 0..MaxInstances} :
          /\ args = [call |-> "__init__", collider |-> KnowledgeCollider]
          /\ \E debug \in BOOLEAN :
                locals = [colliders |-> colliders, calls |-> 0, debug |-> debug]
    /\ ret = NoReturn

SpecAggregator == InitAggregator /\ [][AddCollider]_vars

\* C17: every call addCollider(c) with c an instance of KnowledgeCollider
\* returns normally and leaves the collider list one longer: the earlier
\* entries in their order, then c, also when c is already in the list.
C17_AddColliderAppends ==
    [][(/\ fn = "Aggregator"
        /\ locals'.calls = locals.calls + 1
        /\ args'.collider \in Instances) =>
            /\ ret'.kind = "value"
            /\ locals'.colliders = Append(locals.colliders, args'.collider)]_vars

-----------------------------------------------------------------------------
(* conversions.py: toComplex, as tests/conversions_test.py and its callers  *)
(* (gaussianprimishdist, hzetas) describe it.                               *)

\* the input taken as the imaginary part
toComplexAsImag(x) ==
    LET zeros == [x EXCEPT !.data = [k \in DOMAIN x.data |-> Real(R(0))]]
    IN  IF IsComplex(x) THEN x ELSE ViewAsComplex(Stack(zeros, x))

\* a complex input is returned as it is; a real one becomes the real part of
\* a complex tensor with a zero imaginary part
toComplex(x) ==
    LET zeros == [x EXCEPT !.data = [k \in DOMAIN x.data |-> Real(R(0))]]
    IN  IF IsComplex(x) THEN x ELSE ViewAsComplex(Stack(x, zeros))

ToComplex ==
    /\ fn = "toComplex"
    /\ pc = "entry"
    /\ pc' = "done"
    /\ ret' = [kind |-> "value", out |-> toComplex(args.x)]
    /\ UNCHANGED <<fn, args, locals>>

InitToComplex ==
    /\ fn = "toComplex"
    /\ args \in [x : Tensors]
    /\ pc = "entry"
    /\ locals = NoLocals
    /\ ret = NoReturn

SpecToComplex == InitToComplex /\ [][ToComplex]_vars

\* C18: toComplex returns a complex tensor of the input's shape; for a real
\* input its real part is the input and its imaginary part is zero
\* everywhere; a complex input is returned equal, so that converting the
\* result again changes nothing.
C18_ToComplex ==
    (fn = "toComplex" /\ pc = "done") =>
        LET x == args.x
            out == ret.out
        IN  /\ out.cplx
            /\ out.shape = x.shape
            /\ DOMAIN out.data = DOMAIN x.data
            /\ ~x.cplx => \A k \in DOMAIN x.data :
                              /\ out.data[k].re = x.data[k].re
                              /\ out.data[k].im = R(0)
            /\ x.cplx => out = x
            /\ toComplex(out) = out

\* a real tensor of two rows with nonzero elements has been converted
C18_Witness ==
    /\ fn = "toComplex"
    /\ pc = "done"
    /\ ~args.x.cplx
    /\ args.x.shape = <<2, 2>>
    /\ \A k \in DOMAIN args.x.data : args.x.data[k].re # R(0)
    /\ ret.out.cplx

-----------------------------------------------------------------------------
(* sizing.py: paddim, as tests/sizing_test.py and its caller lens()         *)
(* describe it, and the host library's pad of the last dimension.           *)

\* the 0-based position read for position j of the padded dimension, j
\* counted from the first unpadded element of a dimension of size n
PadIndex(mode, j, n) ==
    CASE mode = "circular" -> j % n
      [] mode = "replicate" -> IF j < 0 THEN 0 ELSE IF j > n - 1 THEN n - 1 ELSE j
      [] mode = "reflect" -> IF j < 0 THEN -j
                             ELSE IF j > n - 1 THEN 2 * (n - 1) - j ELSE j

RECURSIVE PadSource(_, _, _, _, _, _, _)
\* 0-based offset in x of the element read for offset f of the padded
\* tensor of shape out (summed over dimensions k..Len(shape))
PadSource(shape, out, f, d, lowpad, mode, k) ==
    IF k > Len(shape) THEN 0
    ELSE (IF k = d THEN PadIndex(mode, Coord(out, k, f) - lowpad, shape[k])
          ELSE Coord(out, k, f)) * Stride(shape, k)
         + PadSource(shape, out, f, d, lowpad, mode, k + 1)

\* x padded along its dimension d (1-based)
PadAlong(x, lowpad, highpad, d, mode) ==
    LET out == [x.shape EXCEPT ![d] = @ + lowpad + highpad]
    IN  Tensor(out, x.cplx,
               [f \in 1..Numel(out) |->
                   x.data[1 + PadSource(x.shape, out, f - 1, d, lowpad, mode, 1)]])

\* the two pad widths exchanged
paddimSwapped(x, lowpad, highpad, dim, mode) ==
    PadAlong(x, highpad, lowpad, WrapDim(x.shape, dim), mode)

paddim(x, lowpad, highpad, dim, mode) ==
    PadAlong(x, lowpad, highpad, WrapDim(x.shape, dim), mode)

\* one row of the last dimension, padded by the host library
PadRow(row, lowpad, highpad, mode) ==
    LET n == Len(row)
        Reverse(v) == [k \in 1..Len(v) |-> v[Len(v) + 1 - k]]
        Repeat(e, count) == [k \in 1..count |-> e]
    IN  CASE mode = "circular" ->
                (SubSeq(row, n - lowpad + 1, n) \o row) \o SubSeq(row, 1, highpad)
          [] mode = "replicate" ->
                (Repeat(row[1], lowpad) \o row) \o Repeat(row[n], highpad)
          [] mode = "reflect" ->
                (Reverse(SubSeq(row, 2, lowpad + 1)) \o row)
                    \o Reverse(SubSeq(row, n - highpad, n - 1))

RECURSIVE PadRows(_, _, _, _, _)
PadRows(data, n, lowpad, highpad, mode) ==
    IF data = <<>> THEN <<>>
    ELSE PadRow(SubSeq(data, 1, n), lowpad, highpad, mode)
         \o PadRows(SubSeq(data, n + 1, Len(data)), n, lowpad, highpad, mode)

\* nnf.pad(x, pad=[lowpad, highpad], mode=mode): the last dimension padded
TorchPad(x, lowpad, highpad, mode) ==
    LET n == x.shape[Len(x.shape)]
    IN  Tensor([x.shape EXCEPT ![Len(x.shape)] = n + lowpad + highpad], x.cplx,
               PadRows(x.data, n, lowpad, highpad, mode))

Paddim ==
    /\ fn = "paddim"
    /\ pc = "entry"
    /\ pc' = "done"
    /\ ret' = [kind |-> "value",
               out |-> paddim(args.x, args.lowpad, args.highpad, args.dim, args.mode)]
    /\ UNCHANGED <<fn, args, locals>>

MaxPadRank == 2

MaxPadDim == 3

\* a tensor whose elements differ from one another, real or complex
Iota(shape, cplx) ==
    Tensor(shape, cplx,
           [k \in 1..Numel(shape) |-> IF cplx THEN CI(k, -k) ELSE Real(R(k))])

\* every dimension of the input, by either sign, and pad widths below the
\* size of the dimension, which all three modes of the host library accept
InitPaddim ==
    /\ fn = "paddim"
    /\ \E shape \in UNION {[1..r -> 1..MaxPadDim] : r \in 1..MaxPadRank},
          cplx \in BOOLEAN,
          mode \in {"reflect", "replicate", "circular"} :
       \E dim \in (-Len(shape))..(Len(shape) - 1) :
       \E lowpad, highpad \in 0..(shape[WrapDim(shape, dim)] - 1) :
          args = [x |-> Iota(shape, cplx), lowpad |-> lowpad, highpad |-> highpad,
                  dim |-> dim, mode |-> mode]
    /\ pc = "entry"
    /\ locals = NoLocals
    /\ ret = NoReturn

SpecPaddim == InitPaddim /\ [][Paddim]_vars

\* C19: paddim(x, lowpad, highpad, dim, mode) returns a tensor whose size
\* along dim is the input's plus lowpad + highpad and whose other sizes are
\* the input's, for every dim, every mode among reflect, replicate and
\* circular, real and complex inputs; padding the last dimension gives the
\* values of the host library's pad with the same mode.
C19_PaddimSizes ==
    (fn = "paddim" /\ pc = "done") =>
        LET x == args.x
            out == ret.out
            d == WrapDim(x.shape, args.dim)
        IN  /\ Len(out.shape) = Len(x.shape)
            /\ \A k \in 1..Len(x.shape) :
                  out.shape[k] = (IF k = d THEN x.shape[k] + args.lowpad + args.highpad
                                  ELSE x.shape[k])
            /\ Len(out.data) = Numel(out.shape)
            /\ out.cplx = x.cplx
            /\ d = Len(x.shape) =>
                  out = TorchPad(x, args.lowpad, args.highpad, args.mode)

\* a real tensor has been padded by different widths, reflecting, along its
\* last dimension
C19_Witness ==
    /\ fn = "paddim"
    /\ pc = "done"
    /\ args.x = Iota(<<2, 3>>, FALSE)
    /\ args.mode = "reflect"
    /\ args.dim = -1
    /\ args.lowpad = 2
    /\ args.highpad = 1
    /\ ret.out.shape = <<2, 6>>
    /\ SubSeq(ret.out.data, 1, 6)
          = <<Real(R(3)), Real(R(2)), Real(R(1)), Real(R(2)), Real(R(3)), Real(R(2))>>

-----------------------------------------------------------------------------
(* isigmoid: the quadrant masks, checked under SpecMath *)

\* the real and the imaginary part have opposite signs
OppositeSigns(x) ==
    \/ x.re.n >= 0 /\ x.im.n < 0
    \/ x.im.n >= 0 /\ x.re.n < 0

\* C20: in isigmoid every complex element is covered by exactly one of the
\* masks posQuad, negQuad and examineQuad; examineQuad is 1 exactly when the
\* real and the imaginary part have opposite signs, and the magnitude of the
\* output is then sigmoid(rotScalar * |x|), which is not 0.
C20_QuadrantsCovered ==
    (Returned("isigmoid") /\ args.x.cplx) =>
        \A k \in DOMAIN args.x.data :
            LET x == args.x.data[k]
                q == isigmoidQuads(x)
            IN  /\ q.posQuad + q.negQuad + q.examineQuad = 1
                /\ (q.examineQuad = 1) <=> OppositeSigns(x)
                /\ OppositeSigns(x) =>
                      /\ CAbs(ret.out.data[k]) = Sigmoid(RMul(q.rotScalar, CAbs(x)))
                      /\ CAbs(ret.out.data[k]) # R(0)

-----------------------------------------------------------------------------
(* The whole program: one call of any of the modelled functions *)

Init ==
    \/ InitMath \/ InitZeta \/ InitTurbulence \/ InitLens
    \/ InitPolarLens \/ InitHarmonic \/ InitPrimish \/ InitPrimishDist
    \/ InitConstants \/ InitAggregator \/ InitToComplex \/ InitPaddim

Next ==
    \/ NextMath \/ NextZeta \/ NextTurbulence \/ NextLens
    \/ PolarLensInit \/ Harmonicvals \/ Primishvals \/ Realprimishdist
    \/ NextConstants \/ AddCollider \/ ToComplex \/ Paddim

Spec == Init /\ [][Next]_vars

====
